---- MODULE Spec2Model ----
(***************************************************************************)
(* A model of the job-tracking and job-processing core of Recall:          *)
(*   - the validated TranscriptionJob state object (src/models/jobs.py)    *)
(*     and the service-level transcribe_job that drives it                 *)
(*     (src/features/transcription/whisper.py, assemblyai.py);             *)
(*   - the AudioHandler temp-file registry (src/core/audio_handler.py);    *)
(*   - the web worker process_transcription_job (src/web/api.py);          *)
(*   - the desktop application's worker (src/gui/app.py).                  *)
(***************************************************************************)
EXTENDS Integers, Sequences, FiniteSets, TLC

VARIABLES
    job,        \* the models.jobs.TranscriptionJob object
    now,        \* logical clock behind datetime.now()
    last,       \* the last direct method call on job: op, arg, raised, prev
    tjpc,       \* position of the service's transcribe_job call
    tj,         \* transcribe_job's environment and observations
    disk,       \* the temp WAV files that exist on disk
    webTemp,    \* temp_files of web/api.py's module-level audio_handler
    webCfg,     \* web/api.py's config.api_key and transcriber, as booleans
    wjob,       \* web/api.py's jobs dict: job id -> core.jobs.TranscriptionJob
    wk,         \* each web worker thread's position and locals
    gui,        \* gui/app.py: TranscriberApp's fields
    guiTemp,    \* temp_files of the TranscriberApp's audio_handler
    gw,         \* the GUI worker thread's position and locals
    px,         \* a call of a WhisperResponseParser method: fn, arg, out
    ah,         \* an AudioHandler on its own: temp_files and its last call
    wt,         \* a WhisperTranscriber: its health probe and its last request
    tm,         \* a TranscriptionManager run: flag, worker, progress events
    hc          \* an AudioHandler used by two threads, one statement at a time

jobVars == <<job, now, last, tjpc, tj>>

webVars == <<disk, webTemp, webCfg, wjob, wk>>

guiVars == <<gui, guiTemp, gw>>

libVars == <<px, ah, wt, tm, hc>>

vars == <<jobVars, webVars, guiVars, libVars>>

\* what the calls on the validated job leave alone, and what web requests do
nonJobVars == <<webVars, guiVars, libVars>>

nonWebVars == <<jobVars, guiVars, libVars>>

nonGuiVars == <<jobVars, wjob, wk, webTemp, webCfg, libVars>>

nonParserVars == <<jobVars, webVars, guiVars, ah, wt, tm, hc>>

nonHandlerVars == <<jobVars, wjob, wk, webTemp, webCfg, guiVars, px, wt, tm, hc>>

nonWhisperVars == <<jobVars, webVars, guiVars, px, ah, tm, hc>>

nonManagerVars == <<jobVars, webVars, guiVars, px, ah, wt, hc>>

nonThreadVars == <<jobVars, webVars, guiVars, px, ah, wt, tm>>

----------------------------------------------------------------------------
(* Bounds *)

\* datetime.now() is read at most MaxClock times in one behaviour
MaxClock == 4

\* at most MaxFiles files are uploaded in one behaviour, over all jobs
MaxFiles == 3

\* a speaker id is "SPEAKER_" followed by at most MaxSuffix characters
MaxSuffix == 3

\* aggregate_speaker_segments is given at most MaxSegs segments
MaxSegs == 5

\* a response handed to process_response holds at most MaxRespSegs segments
MaxRespSegs == 2

\* source files the two threads of a shared AudioHandler work on
MaxTemps == 2

----------------------------------------------------------------------------
(* models/jobs.py: TranscriptionJob *)

\* Python's None for the Optional[str] fields
NoneStr == "<None>"

\* Optional[datetime] = None is 0; a set timestamp is a clock value >= 1
NoTime == 0

JobStatus == {"pending", "processing", "completed", "failed", "cancelled"}

Terminal == {"completed", "failed", "cancelled"}

Max(a, b) == IF a >= b THEN a ELSE b

Min(a, b) == IF a <= b THEN a ELSE b

\* max(0.0, min(100.0, v))
Clamp(v) == Max(0, Min(100, v))

NewJob ==
    [status |-> "pending", started_at |-> NoTime, completed_at |-> NoTime,
     error_message |-> NoneStr, result |-> NoneStr, progress |-> 0]

Raise(j) == [raised |-> TRUE, job |-> j]

Return(j) == [raised |-> FALSE, job |-> j]

\* a faulty mark_processing: coerces the status instead of rejecting
MarkProcessing_Coercing(j, t) ==
    Return([j EXCEPT !.status = "processing", !.started_at = t, !.progress = 0])

MarkProcessing(j, t) ==
    IF j.status # "pending"
    THEN Raise(j)
    ELSE Return([j EXCEPT !.status = "processing", !.started_at = t,
                          !.progress = 0])

MarkCompleted(j, res, t) ==
    IF j.status \notin {"processing", "pending"}
    THEN Raise(j)
    ELSE Return([j EXCEPT !.status = "completed", !.completed_at = t,
                          !.result = res, !.progress = 100,
                          !.error_message = NoneStr])

\* a faulty mark_failed: keeps the result of a completed job
MarkFailed_KeepResult(j, err, t) ==
    Return([j EXCEPT !.status = "failed", !.completed_at = t,
                     !.error_message = err])

MarkFailed(j, err, t) ==
    Return([j EXCEPT !.status = "failed", !.completed_at = t,
                     !.error_message = err, !.result = NoneStr])

MarkCancelled(j, t) ==
    IF j.status \in {"completed", "failed"}
    THEN Raise(j)
    ELSE Return([j EXCEPT !.status = "cancelled", !.completed_at = t])

\* a faulty update_progress: clamps and stores in every status
UpdateProgress_AnyStatus(j, p) == Return([j EXCEPT !.progress = Clamp(p)])

UpdateProgress(j, p) ==
    IF j.status # "processing"
    THEN Raise(j)
    ELSE Return([j EXCEPT !.progress = Clamp(p)])

----------------------------------------------------------------------------
(* Direct calls on the job object, from any caller *)

ProgressInputs == {-1, 0, 10, 50, 100, 150}

ResultInputs == {"", "text"}

ErrorInputs == {"boom"}

Called(op, arg, r) ==
    /\ job' = r.job
    /\ last' = [op |-> op, arg |-> arg, raised |-> r.raised, prev |-> job]

\* a call that reads datetime.now() when it is accepted
Stamp(r) == now' = IF r.raised THEN now ELSE now + 1

CallMarkProcessing ==
    /\ now < MaxClock
    /\ LET r == MarkProcessing(job, now + 1)
       IN  Called("mark_processing", 0, r) /\ Stamp(r)
    /\ UNCHANGED <<tjpc, tj>>
    /\ UNCHANGED nonJobVars

CallMarkCompleted ==
    /\ now < MaxClock
    /\ \E res \in ResultInputs :
         LET r == MarkCompleted(job, res, now + 1)
         IN  Called("mark_completed", 0, r) /\ Stamp(r)
    /\ UNCHANGED <<tjpc, tj>>
    /\ UNCHANGED nonJobVars

CallMarkFailed ==
    /\ now < MaxClock
    /\ \E err \in ErrorInputs :
         LET r == MarkFailed(job, err, now + 1)
         IN  Called("mark_failed", 0, r) /\ Stamp(r)
    /\ UNCHANGED <<tjpc, tj>>
    /\ UNCHANGED nonJobVars

CallMarkCancelled ==
    /\ now < MaxClock
    /\ LET r == MarkCancelled(job, now + 1)
       IN  Called("mark_cancelled", 0, r) /\ Stamp(r)
    /\ UNCHANGED <<tjpc, tj>>
    /\ UNCHANGED nonJobVars

CallUpdateProgress ==
    /\ \E p \in ProgressInputs :
         Called("update_progress", p, UpdateProgress(job, p))
    /\ UNCHANGED <<now, tjpc, tj>>
    /\ UNCHANGED nonJobVars

----------------------------------------------------------------------------
(* features/transcription/{whisper,assemblyai}.py and the transcribers      *)
(* they wrap (core/whisper/transcriber.py, core/assemblyai_transcriber.py)  *)

Services == {"whisper", "assemblyai"}

\* construction-time health probe: "down" is check_health's ({}, False)
Probes == {"down", "unhealthy", "ok"}

WhisperOutcomes == {"speech", "silent", "error_field", "http_error", "unreachable"}

AssemblyOutcomes == {"speech", "silent", "empty", "error_status", "sdk_exception"}

Outcomes(svc) == IF svc = "whisper" THEN WhisperOutcomes ELSE AssemblyOutcomes

\* the outcomes in which the backend call itself failed
BackendFailures == {"http_error", "unreachable", "error_status", "sdk_exception"}

\* is_available(): the probe's dict (truthy unless empty) / bool(api key)
IsAvailable(t) == IF t.svc = "whisper" THEN t.probe # "down" ELSE t.apiKey

\* the wrapped callback of transcribe_job
JobProgressCallback(j, p) == UpdateProgress(j, p)

Continue(j) == [kind |-> "continue", job |-> j, text |-> ""]

ReturnText(j, text) == [kind |-> "return", job |-> j, text |-> text]

Propagate(j) == [kind |-> "raise", job |-> j, text |-> ""]

\* the transcriber's "except Exception": report -1, return ""
InnerExcept(j) ==
    LET r == JobProgressCallback(j, -1)
    IN  IF r.raised THEN Propagate(j) ELSE ReturnText(r.job, "")

\* a progress_callback(...) call inside the transcriber's try block
TryCallback(j, p) ==
    LET r == JobProgressCallback(j, p)
    IN  IF r.raised THEN InnerExcept(j) ELSE Continue(r.job)

\* run g on the job of a step that continued
Then(step, text) ==
    IF step.kind = "continue" THEN ReturnText(step.job, text) ELSE step

\* the part of transcribe_file before the first progress event
ValidateAndPrepare(t, j, fileOk) ==
    IF ~fileOk THEN Propagate(j)
    ELSE IF t.svc = "assemblyai" /\ ~t.apiKey THEN Propagate(j)
    ELSE TryCallback(j, IF t.svc = "whisper" THEN 10 ELSE 0)

\* the part of transcribe_file after the backend answered with outcome o
HandleResponse(t, j, o) ==
    IF o \in BackendFailures THEN InnerExcept(j)
    ELSE IF t.svc = "whisper"
    THEN IF o = "speech"
         THEN Then(TryCallback(j, 100), "text")
         ELSE Then(TryCallback(j, -1), "")
    ELSE LET done == TryCallback(j, 100)
         IN  IF done.kind # "continue" THEN done
             ELSE IF o = "speech" THEN ReturnText(done.job, "text")
             ELSE IF o = "silent" THEN Then(TryCallback(done.job, -1), "")
             ELSE ReturnText(done.job, "")

\* transcribe_job after transcribe_file returned (text) or raised
Finish(j, raised, text, t) ==
    IF raised
    THEN [pc |-> "raised", job |-> MarkFailed(j, "TranscriptionError", t).job]
    ELSE LET r == MarkCompleted(j, text, t)
         IN  IF r.raised
             THEN [pc |-> "raised", job |-> MarkFailed(j, "Cannot transition", t).job]
             ELSE [pc |-> "returned", job |-> r.job]

InService(j) ==
    /\ job' = j
    /\ last' = [op |-> "transcribe_job", arg |-> 0, raised |-> FALSE, prev |-> job]

\* a step of transcribe_file: go on to pc next, or leave transcribe_file
Advance(step, next) ==
    /\ InService(step.job)
    /\ tjpc' = CASE step.kind = "continue" -> next
                 [] step.kind = "return" -> "file_returned"
                 [] OTHER -> "file_raised"
    /\ now' = now

TJ_Start ==
    /\ tjpc \in {"idle", "returned", "raised"}
    /\ now < MaxClock
    /\ LET r == MarkProcessing(job, now + 1)
       IN  IF r.raised
           THEN /\ InService(MarkFailed(job, "Cannot transition", now + 1).job)
                /\ tjpc' = "raised"
                /\ tj' = [tj EXCEPT !.outcome = "none", !.text = ""]
           ELSE /\ InService(r.job)
                /\ tjpc' = "started"
                /\ tj' = [tj EXCEPT !.outcome = "none", !.text = "",
                                    !.entered = TRUE]
    /\ now' = now + 1
    /\ UNCHANGED nonJobVars

\* why transcribe_file raised before it reached the backend
RaisedBecause(t, fileOk) ==
    IF ~fileOk THEN "invalid_file"
    ELSE IF t.svc = "assemblyai" /\ ~t.apiKey THEN "no_key"
    ELSE "callback"

TJ_Preparing ==
    /\ tjpc = "started"
    /\ \E fileOk \in BOOLEAN :
         LET step == ValidateAndPrepare(tj, job, fileOk)
         IN  /\ Advance(step, "prepared")
             /\ tj' = [tj EXCEPT !.outcome = IF step.kind = "raise"
                                             THEN RaisedBecause(tj, fileOk)
                                             ELSE @]
    /\ UNCHANGED nonJobVars

TJ_Transcribing ==
    /\ tjpc = "prepared"
    /\ LET step == TryCallback(job, 50)
       IN  /\ Advance(step, "inflight")
           /\ tj' = [tj EXCEPT !.backendCalled = @ \/ step.kind = "continue"]
    /\ UNCHANGED nonJobVars

TJ_Response ==
    /\ tjpc = "inflight"
    /\ \E o \in Outcomes(tj.svc) :
         LET step == HandleResponse(tj, job, o)
         IN  /\ Advance(step, "inflight")
             /\ tj' = [tj EXCEPT !.outcome = o, !.text = step.text]
    /\ UNCHANGED nonJobVars

TJ_Finish ==
    /\ tjpc \in {"file_returned", "file_raised"}
    /\ now < MaxClock
    /\ LET f == Finish(job, tjpc = "file_raised", tj.text, now + 1)
       IN  /\ InService(f.job)
           /\ tjpc' = f.pc
    /\ now' = now + 1
    /\ UNCHANGED tj
    /\ UNCHANGED nonJobVars

----------------------------------------------------------------------------
(* core/audio_handler.py: AudioHandler *)

\* a path: an input file ("orig"), its temp_<basename>.wav ("temp"), or None
NonePath == [kind |-> "none", owner |-> "", idx |-> 0]

FilePath(owner, i) == [kind |-> "orig", owner |-> owner, idx |-> i]

TempOf(f) == [f EXCEPT !.kind = "temp"]

\* what prepare_audio meets: an empty input, a decode failure, a decoded
\* duration of zero, an input that is already .wav, a good export, an export
\* that left a zero-byte file, an export that left no file
PrepOutcomes ==
    {"empty_file", "decode_error", "zero_duration", "wav", "converted",
     "export_empty", "export_missing"}

PrepFailures ==
    {"empty_file", "decode_error", "zero_duration", "export_empty",
     "export_missing"}

PrepareAudio(reg, dsk, f, o) ==
    CASE o = "wav" -> [path |-> f, reg |-> reg, disk |-> dsk]
      [] o = "converted" ->
            [path |-> TempOf(f), reg |-> reg \cup {TempOf(f)},
             disk |-> dsk \cup {TempOf(f)}]
      [] o = "export_empty" ->
            [path |-> NonePath, reg |-> reg, disk |-> dsk \cup {TempOf(f)}]
      [] OTHER -> [path |-> NonePath, reg |-> reg, disk |-> dsk]

\* a cleanup that removes whatever path it is given
CleanupTempFile_Unowned(reg, dsk, p) ==
    [reg |-> reg \ {p}, disk |-> dsk \ {p}]

\* os.remove is taken to succeed; a path outside the registry is left alone
CleanupTempFile(reg, dsk, p) ==
    IF p \in reg
    THEN [reg |-> reg \ {p}, disk |-> dsk \ {p}]
    ELSE [reg |-> reg, disk |-> dsk]

RECURSIVE CleanupEach(_, _, _)
CleanupEach(snapshot, reg, dsk) ==
    IF snapshot = {}
    THEN [reg |-> reg, disk |-> dsk]
    ELSE LET p == CHOOSE x \in snapshot : TRUE
             r == CleanupTempFile(reg, dsk, p)
         IN  CleanupEach(snapshot \ {p}, r.reg, r.disk)

\* iterates list(self.temp_files), a snapshot
CleanupAllTempFiles(reg, dsk) == CleanupEach(reg, reg, dsk)

\* the paths handed to a stand-alone AudioHandler
HandlerFiles == {FilePath("h", i) : i \in 1..MaxFiles}

HandlerPaths ==
    HandlerFiles \cup {TempOf(f) : f \in HandlerFiles} \cup {NonePath}

\* the call just made: what it was given, what it returned, and the registry
\* and the disk as they were before it
HandlerCalled(op, arg, input, ret) ==
    [op |-> op, arg |-> arg, input |-> input, ret |-> ret, raised |-> FALSE,
     temp_files |-> ah.temp_files, disk |-> disk]

CallPrepareAudio ==
    /\ \E f \in HandlerFiles, o \in PrepOutcomes :
         LET r == PrepareAudio(ah.temp_files, disk, f, o)
         IN  /\ disk' = r.disk
             /\ ah' = [temp_files |-> r.reg,
                       last |-> HandlerCalled("prepare_audio", f, o, r.path)]
    /\ UNCHANGED nonHandlerVars

CallCleanupTempFile ==
    /\ \E p \in HandlerPaths :
         LET r == CleanupTempFile(ah.temp_files, disk, p)
         IN  /\ disk' = r.disk
             /\ ah' = [temp_files |-> r.reg,
                       last |-> HandlerCalled("cleanup_temp_file", p, "", NonePath)]
    /\ UNCHANGED nonHandlerVars

CallCleanupAllTempFiles ==
    /\ LET r == CleanupAllTempFiles(ah.temp_files, disk)
       IN  /\ disk' = r.disk
           /\ ah' = [temp_files |-> r.reg,
                     last |-> HandlerCalled("cleanup_all_temp_files", NonePath,
                                            "", NonePath)]
    /\ UNCHANGED nonHandlerVars

----------------------------------------------------------------------------
(* core/audio_handler.py again, statement by statement: two threads share   *)
(* one AudioHandler. "main" calls cleanup_all_temp_files, "other" calls any  *)
(* of the three methods. hc.reg is temp_files, hc.files the temp files on    *)
(* disk; snap, readded, left, overlap and swallowed are history.             *)

Threads == {"main", "other"}

Other(t) == IF t = "main" THEN "other" ELSE "main"

ThreadTemps == {TempOf(FilePath("t", i)) : i \in 1..MaxTemps}

ThreadIdle == [pc |-> "idle", arg |-> NonePath, todo |-> {}, all |-> FALSE]

\* a snapshot that holds nothing
Snapshot_Nothing(reg) == {}

\* list(self.temp_files): the copy that cleanup_all_temp_files iterates
Snapshot(reg) == reg

InCleanup(th) == th.pc \in {"all_loop", "c_in", "c_exists", "c_remove", "c_unreg"}

\* the end of a cleanup_temp_file call: back to the loop of
\* cleanup_all_temp_files, or the call returns
CleanupDone(th) ==
    IF th.all THEN [th EXCEPT !.pc = "all_loop", !.arg = NonePath]
    ELSE [th EXCEPT !.pc = "returned", !.arg = NonePath]

\* a thread's call has returned; history of main's call ends with it
ThReturn(t) ==
    /\ hc.thr[t].pc = "returned"
    /\ hc' = [hc EXCEPT !.thr[t] = ThreadIdle,
                !.overlap = IF t = "other" THEN FALSE ELSE @,
                !.snap = IF t = "main" THEN {} ELSE @,
                !.readded = IF t = "main" THEN {} ELSE @,
                !.left = IF t = "main" THEN {} ELSE @,
                !.swallowed = IF t = "main" THEN FALSE ELSE @]
    /\ UNCHANGED nonThreadVars

\* cleanup_all_temp_files is called: the snapshot is taken
ThCleanupAll(t) ==
    /\ hc.thr[t].pc = "idle"
    /\ hc' = [hc EXCEPT
                !.thr[t] = [pc |-> "all_loop", arg |-> NonePath,
                            todo |-> Snapshot(hc.reg), all |-> TRUE],
                !.snap = IF t = "main" THEN hc.reg ELSE @,
                !.readded = IF t = "main" THEN {} ELSE @,
                !.swallowed = IF t = "main" THEN FALSE ELSE @]
    /\ UNCHANGED nonThreadVars

\* the for loop: the next path of the snapshot, or the end of the call; when
\* main's call ends, left is what is still registered of its snapshot and
\* overlap says whether the other thread is in a cleanup
ThAllNext(t) ==
    /\ hc.thr[t].pc = "all_loop"
    /\ IF hc.thr[t].todo = {}
       THEN hc' = [hc EXCEPT !.thr[t].pc = "returned", !.thr[t].all = FALSE,
                     !.left = IF t = "main" THEN hc.snap \cap hc.reg ELSE @,
                     !.overlap = IF t = "main" THEN InCleanup(hc.thr["other"])
                                 ELSE @]
       ELSE \E p \in hc.thr[t].todo :
              hc' = [hc EXCEPT !.thr[t].pc = "c_in", !.thr[t].arg = p,
                               !.thr[t].todo = @ \ {p}]
    /\ UNCHANGED nonThreadVars

\* cleanup_temp_file(p) is called by the other thread
ThCleanup(t) ==
    /\ t = "other"
    /\ hc.thr[t].pc = "idle"
    /\ \E p \in ThreadTemps :
         hc' = [hc EXCEPT !.thr[t] = [ThreadIdle EXCEPT !.pc = "c_in",
                                                        !.arg = p]]
    /\ UNCHANGED nonThreadVars

\* if file_path in self.temp_files
ThCleanupIn(t) ==
    /\ hc.thr[t].pc = "c_in"
    /\ hc' = [hc EXCEPT !.thr[t] = IF hc.thr[t].arg \in hc.reg
                                   THEN [@ EXCEPT !.pc = "c_exists"]
                                   ELSE CleanupDone(@)]
    /\ UNCHANGED nonThreadVars

\* if os.path.exists(file_path)
ThCleanupExists(t) ==
    /\ hc.thr[t].pc = "c_exists"
    /\ hc' = [hc EXCEPT !.thr[t].pc = IF hc.thr[t].arg \in hc.files
                                      THEN "c_remove" ELSE "c_unreg"]
    /\ UNCHANGED nonThreadVars

\* os.remove(file_path): FileNotFoundError when the file has gone meanwhile;
\* the except clause swallows it and the registry is left as it is
ThCleanupRemove(t) ==
    /\ hc.thr[t].pc = "c_remove"
    /\ IF hc.thr[t].arg \in hc.files
       THEN hc' = [hc EXCEPT !.files = @ \ {hc.thr[t].arg},
                             !.thr[t].pc = "c_unreg"]
       ELSE hc' = [hc EXCEPT !.thr[t] = CleanupDone(@),
                     !.swallowed = IF t = "main" THEN TRUE ELSE @]
    /\ UNCHANGED nonThreadVars

\* self.temp_files.remove(file_path): KeyError, swallowed, when it has gone
ThCleanupUnregister(t) ==
    /\ hc.thr[t].pc = "c_unreg"
    /\ hc' = [hc EXCEPT !.reg = @ \ {hc.thr[t].arg},
                !.thr[t] = CleanupDone(@),
                !.swallowed = IF t = "main" /\ hc.thr[t].arg \notin hc.reg
                              THEN TRUE ELSE @]
    /\ UNCHANGED nonThreadVars

\* prepare_audio by the other thread, up to audio.export: the temp file is
\* written
ThPrepareExport(t) ==
    /\ t = "other"
    /\ hc.thr[t].pc = "idle"
    /\ \E p \in ThreadTemps :
         hc' = [hc EXCEPT !.files = @ \cup {p},
                  !.thr[t] = [ThreadIdle EXCEPT !.pc = "p_verify", !.arg = p]]
    /\ UNCHANGED nonThreadVars

\* the check of the exported file, temp_files.add and the return; None when
\* the file is not there any more
ThPrepareRegister(t) ==
    /\ hc.thr[t].pc = "p_verify"
    /\ IF hc.thr[t].arg \in hc.files
       THEN hc' = [hc EXCEPT !.reg = @ \cup {hc.thr[t].arg},
                     !.readded = IF hc.thr["main"].pc # "idle"
                                 THEN @ \cup {hc.thr[t].arg} ELSE @,
                     !.thr[t] = [@ EXCEPT !.pc = "returned", !.arg = NonePath]]
       ELSE hc' = [hc EXCEPT !.thr[t] = [@ EXCEPT !.pc = "returned",
                                                  !.arg = NonePath]]
    /\ UNCHANGED nonThreadVars

----------------------------------------------------------------------------
(* core/transcriber.py: Transcriber, as web/api.py and gui/app.py call it *)

\* what the AssemblyAI call meets once a client exists
CloudOutcomes == {"speech", "silent", "empty", "error_status", "sdk_exception"}

\* transcribe_file(path): raises without a client; "" on every failure, on
\* silent audio and on a path it cannot stat; the text otherwise
TranscribeFile(hasClient, path, dsk, o) ==
    IF ~hasClient THEN [raised |-> TRUE, text |-> "", cause |-> "no_client"]
    ELSE IF path.kind = "none" \/ (path.kind = "temp" /\ path \notin dsk)
    THEN [raised |-> FALSE, text |-> "", cause |-> "no_file"]
    ELSE IF o = "speech" THEN [raised |-> FALSE, text |-> "text", cause |-> o]
    ELSE [raised |-> FALSE, text |-> "", cause |-> o]

\* whether the transcriber object provides format_transcript_to_string:
\* class Transcriber defines none (FALSE); web/api.py calls it on every
\* non-empty transcript, which only an object that has it survives (TRUE)
FormatProvided == BOOLEAN

----------------------------------------------------------------------------
(* web/api.py: upload_files, process_transcription_job, api_config *)

WebJobs == {"a", "b"}

NoWebJob ==
    [status |-> "absent", n |-> 0, progress |-> 0, current_file |-> 0,
     results |-> <<>>, error |-> NoneStr, start_time |-> FALSE,
     end_time |-> FALSE]

\* core/jobs.py: TranscriptionJob.__init__
NewWebJob(n) == [NoWebJob EXCEPT !.status = "pending", !.n = n]

\* a results entry; cls is the class of the exception whose str() is error
ErrorResult(i, cls, msg) ==
    [file |-> i, status |-> "error", error |-> msg, cls |-> cls]

CompletedResult(i) ==
    [file |-> i, status |-> "completed", error |-> "", cls |-> ""]

RECURSIVE FilesOf(_)
FilesOf(S) ==
    IF S = {} THEN 0
    ELSE LET j == CHOOSE x \in S : TRUE
         IN  wjob[j].n + FilesOf(S \ {j})

\* upload_files: 401 without an API key, else a pending job and its thread
WebUpload(j) ==
    /\ wjob[j].status = "absent"
    /\ wk[j].pc = "idle"
    /\ IF ~webCfg.api_key
       THEN /\ wk' = [wk EXCEPT ![j].pc = "rejected"]
            /\ UNCHANGED wjob
       ELSE \E n \in 1..(MaxFiles - FilesOf(WebJobs)) :
               /\ wjob' = [wjob EXCEPT ![j] = NewWebJob(n)]
               /\ wk' = [wk EXCEPT ![j].pc = "start"]
    /\ UNCHANGED <<disk, webTemp, webCfg>>
    /\ UNCHANGED nonWebVars

\* api_config POST: sets config.api_key; the Transcriber is not rebuilt
WebSetApiKey ==
    /\ \E key \in BOOLEAN :
         /\ key # webCfg.api_key
         /\ webCfg' = [webCfg EXCEPT !.api_key = key]
    /\ UNCHANGED <<disk, webTemp, wjob, wk>>
    /\ UNCHANGED nonWebVars

WebStart(j) ==
    /\ wk[j].pc = "start"
    /\ wjob' = [wjob EXCEPT ![j].status = "processing", ![j].start_time = TRUE]
    /\ wk' = [wk EXCEPT ![j].pc = "loop", ![j].i = 1]
    /\ UNCHANGED <<disk, webTemp, webCfg>>
    /\ UNCHANGED nonWebVars

\* a failure handler that gives the job up, as the outer "except" would
WebFileFailed_Abort(j, reg, dsk, prepared, cls, msg, cause) ==
    /\ webTemp' = reg
    /\ disk' = dsk
    /\ wjob' = [wjob EXCEPT ![j].status = "failed", ![j].error = msg,
                            ![j].end_time = TRUE]
    /\ wk' = [wk EXCEPT ![j].pc = "done", ![j].prepared = prepared,
                        ![j].cause = cause]

\* the per-file "except Exception": clean up, record the error, go on
WebFileFailed(j, reg, dsk, prepared, cls, msg, cause) ==
    LET f == FilePath(j, wk[j].i)
        c == IF prepared # f
             THEN CleanupTempFile(reg, dsk, prepared)
             ELSE [reg |-> reg, disk |-> dsk]
    IN  /\ webTemp' = c.reg
        /\ disk' = c.disk
        /\ wjob' = [wjob EXCEPT
                      ![j].results = Append(@, ErrorResult(wk[j].i, cls, msg)),
                      ![j].current_file = wk[j].i,
                      ![j].progress = ((wk[j].i - 1) * 100) \div wjob[j].n]
        /\ wk' = [wk EXCEPT ![j].pc = "loop", ![j].i = @ + 1,
                            ![j].prepared = prepared, ![j].cause = cause]

\* loop head up to the transcribe_file call
WebPrepare(j) ==
    /\ wk[j].pc = "loop"
    /\ wk[j].i <= wjob[j].n
    /\ \E o \in PrepOutcomes :
         LET f == FilePath(j, wk[j].i)
             r == PrepareAudio(webTemp, disk, f, o)
         IN  IF r.path = NonePath
             THEN WebFileFailed(j, r.reg, r.disk, r.path, "AudioHandlerError",
                                "Failed to prepare audio file for transcription", o)
             ELSE /\ webTemp' = r.reg
                  /\ disk' = r.disk
                  /\ wjob' = [wjob EXCEPT
                                ![j].current_file = wk[j].i,
                                ![j].progress = ((wk[j].i - 1) * 100) \div wjob[j].n]
                  /\ wk' = [wk EXCEPT ![j].pc = "backend", ![j].prepared = r.path]
    /\ UNCHANGED webCfg
    /\ UNCHANGED nonWebVars

\* from the return of transcribe_file to the end of the iteration
WebTranscribed(j) ==
    /\ wk[j].pc = "backend"
    /\ \E o \in CloudOutcomes :
         LET f == FilePath(j, wk[j].i)
             p == wk[j].prepared
             t == TranscribeFile(webCfg.client, p, disk, o)
             c == IF p # f
                  THEN CleanupTempFile(webTemp, disk, p)
                  ELSE [reg |-> webTemp, disk |-> disk]
         IN  IF t.raised
             THEN WebFileFailed(j, webTemp, disk, p, "Exception",
                                "No API key configured", t.cause)
             ELSE IF t.text = ""
             THEN WebFileFailed(j, c.reg, c.disk, p, "TranscriptionError",
                                "Transcription failed and returned no object.",
                                t.cause)
             ELSE IF ~webCfg.has_format
             THEN WebFileFailed(j, c.reg, c.disk, p, "AttributeError",
                                "no attribute format_transcript_to_string",
                                t.cause)
             ELSE /\ webTemp' = c.reg
                  /\ disk' = c.disk
                  /\ wjob' = [wjob EXCEPT
                                ![j].results = Append(@, CompletedResult(wk[j].i))]
                  /\ wk' = [wk EXCEPT ![j].pc = "loop", ![j].i = @ + 1,
                                      ![j].cause = t.cause]
    /\ UNCHANGED webCfg
    /\ UNCHANGED nonWebVars

\* the first results entry of file i that is completed, 0 if there is none
FirstCompleted(results, i) ==
    LET hits == {k \in 1..Len(results) :
                    results[k].file = i /\ results[k].status = "completed"}
    IN  IF hits = {} THEN 0 ELSE CHOOSE k \in hits : \A m \in hits : k <= m

\* receive_processed_transcript for file i of job j, with a JSON body that
\* is saved: 404 when the job or a completed entry of the file is missing
WebReceiveProcessed(j) ==
    /\ \E i \in 1..MaxFiles :
         LET k == FirstCompleted(wjob[j].results, i)
         IN  IF wjob[j].status = "absent" \/ k = 0
             THEN UNCHANGED wjob
             ELSE wjob' = [wjob EXCEPT ![j].results[k].status = "processed"]
    /\ UNCHANGED <<disk, webTemp, webCfg, wk>>
    /\ UNCHANGED nonWebVars

\* after the last file: job.status = "completed", the first assignment of
\* the final block; a request thread can read the job right after it
WebCompleted(j) ==
    /\ wk[j].pc = "loop"
    /\ wk[j].i > wjob[j].n
    /\ wjob' = [wjob EXCEPT ![j].status = "completed"]
    /\ wk' = [wk EXCEPT ![j].pc = "completed"]
    /\ UNCHANGED <<disk, webTemp, webCfg>>
    /\ UNCHANGED nonWebVars

\* job.progress = 100, job.end_time = datetime.now(), and the finally's
\* cleanup_all_temp_files
WebFinish(j) ==
    /\ wk[j].pc = "completed"
    /\ wjob' = [wjob EXCEPT ![j].progress = 100, ![j].end_time = TRUE]
    /\ LET c == CleanupAllTempFiles(webTemp, disk)
       IN  webTemp' = c.reg /\ disk' = c.disk
    /\ wk' = [wk EXCEPT ![j].pc = "done"]
    /\ UNCHANGED webCfg
    /\ UNCHANGED nonWebVars

----------------------------------------------------------------------------
(* gui/app.py: TranscriberApp.start_transcription, process_files, and the   *)
(* API key dialog's save_api_key                                             *)

\* one line of the log: the outcome shown for file i of the run
FileLog(i, status, cls) == [file |-> i, status |-> status, cls |-> cls]

\* the outer except and the finally: the run is given up
GuiRunFailed ==
    /\ gui' = [gui EXCEPT !.status = "Failed", !.processing = FALSE]
    /\ gw' = [gw EXCEPT !.pc = "done"]

\* save_api_key: sets config.api_key and rebuilds the Transcriber
GuiSaveApiKey ==
    /\ ~gui.api_key
    /\ gui' = [gui EXCEPT !.api_key = TRUE, !.client = TRUE]
    /\ UNCHANGED <<disk, guiTemp, gw>>
    /\ UNCHANGED nonGuiVars

\* the "export timestamps" checkbox
GuiToggleExport ==
    /\ gui' = [gui EXCEPT !.export_timestamps = ~@]
    /\ UNCHANGED <<disk, guiTemp, gw>>
    /\ UNCHANGED nonGuiVars

\* start_transcription: refused while a run is in progress or without a key;
\* one worker thread at a time: the previous run's thread has ended
GuiStart ==
    /\ ~gui.processing
    /\ gw.pc \in {"idle", "done"}
    /\ gui.api_key
    /\ \E n \in 1..MaxFiles :
         gw' = [pc |-> "loop", i |-> 1, n |-> n, prepared |-> NonePath,
                cause |-> "none", cancelAt |-> 0, logAt |-> <<>>]
    /\ gui' = [gui EXCEPT !.processing = TRUE, !.status = "Starting...",
                          !.log = <<>>]
    /\ UNCHANGED <<disk, guiTemp>>
    /\ UNCHANGED nonGuiVars

\* the cancellation flag is set: processing is cleared while the worker runs;
\* cancelAt is the file whose backend call is in flight at that moment (0
\* when the flag is set between two files), logAt the log as it was
GuiCancel ==
    /\ gui.processing
    /\ gw.pc \in {"loop", "backend"}
    /\ gui' = [gui EXCEPT !.processing = FALSE]
    /\ gw' = [gw EXCEPT !.cancelAt = IF gw.pc = "backend" THEN gw.i ELSE 0,
                        !.logAt = gui.log]
    /\ UNCHANGED <<disk, guiTemp>>
    /\ UNCHANGED nonGuiVars

\* a loop head that never looks at the flag
Cancelled_Ignored(g) == FALSE

\* the test at the head of each iteration: if not self.processing
Cancelled(g) == ~g.processing

\* loop head up to the transcribe_file call; a None from prepare_audio is
\* passed on to transcribe_file
GuiPrepare ==
    /\ gw.pc = "loop"
    /\ gw.i <= gw.n
    /\ IF Cancelled(gui)
       THEN /\ gui' = [gui EXCEPT !.status = "Cancelled"]
            /\ gw' = [gw EXCEPT !.pc = "done"]
            /\ UNCHANGED <<disk, guiTemp>>
       ELSE \E o \in PrepOutcomes :
              LET r == PrepareAudio(guiTemp, disk, FilePath("gui", gw.i), o)
              IN  /\ guiTemp' = r.reg
                  /\ disk' = r.disk
                  /\ gw' = [gw EXCEPT !.pc = "backend", !.prepared = r.path]
                  /\ gui' = [gui EXCEPT !.status = "Processing"]
    /\ UNCHANGED nonGuiVars

\* from the return of transcribe_file to the end of the iteration
GuiTranscribed ==
    /\ gw.pc = "backend"
    /\ \E o \in CloudOutcomes :
         LET f == FilePath("gui", gw.i)
             p == gw.prepared
             t == TranscribeFile(gui.client, p, disk, o)
             c == IF p # f
                  THEN CleanupTempFile(guiTemp, disk, p)
                  ELSE [reg |-> guiTemp, disk |-> disk]
         IN  IF t.raised
             THEN GuiRunFailed /\ UNCHANGED <<disk, guiTemp>>
             ELSE /\ guiTemp' = c.reg
                  /\ disk' = c.disk
                  /\ IF t.text = ""
                     THEN /\ gui' = [gui EXCEPT !.log =
                                 Append(@, FileLog(gw.i, "error", "SilentAudioError"))]
                          /\ gw' = [gw EXCEPT !.pc = "loop", !.i = @ + 1,
                                              !.cause = t.cause]
                     ELSE IF gui.export_timestamps
                     THEN GuiRunFailed
                     ELSE /\ gui' = [gui EXCEPT !.log =
                                 Append(@, FileLog(gw.i, "completed", ""))]
                          /\ gw' = [gw EXCEPT !.pc = "loop", !.i = @ + 1,
                                              !.cause = t.cause]
    /\ UNCHANGED nonGuiVars

\* after the last file: "Completed", and the finally
GuiFinish ==
    /\ gw.pc = "loop"
    /\ gw.i > gw.n
    /\ gui' = [gui EXCEPT !.status = IF gui.processing THEN "Completed" ELSE @,
                          !.processing = FALSE]
    /\ gw' = [gw EXCEPT !.pc = "done"]
    /\ UNCHANGED <<disk, guiTemp>>
    /\ UNCHANGED nonGuiVars

----------------------------------------------------------------------------
(* core/whisper: the health probe made by WhisperTranscriber.__init__ and    *)
(* the multipart request built by transcribe_file                            *)

\* a key of the /health answer: absent, or present with a true or false value
JsonBool == {"absent", "true", "false"}

\* dict.get(key, False), taken as a truth value
Get(v) == v = "true"

\* the 'diarization' value of the /health answer: absent, an object with
\* modules_available, token_present and error, or a value that is no object
NoDiarization ==
    [kind |-> "absent", legacy |-> FALSE, modules_available |-> "absent",
     token_present |-> "absent", error |-> "absent"]

DiarizationValues ==
    {NoDiarization}
    \cup {[NoDiarization EXCEPT !.kind = "legacy", !.legacy = b] : b \in BOOLEAN}
    \cup [kind : {"dict"}, legacy : {FALSE}, modules_available : JsonBool,
          token_present : JsonBool, error : {"absent", "empty", "message"}]

\* check_health: (data, True), or ({}, False) when the server is not reached;
\* more: the answer has further keys (model, device)
HealthProbes ==
    {[success |-> FALSE, ok |-> "absent", diarization |-> NoDiarization,
      more |-> FALSE]}
    \cup [success : {TRUE}, ok : JsonBool, diarization : DiarizationValues,
          more : BOOLEAN]

\* bool(health_data): a dict is true unless it is empty
HealthDataTruthy(h) ==
    h.ok # "absent" \/ h.diarization.kind # "absent" \/ h.more

\* a capability check that does not look at token_present
CheckDiarizationCapability_NoToken(h) ==
    LET dz == h.diarization
    IN  IF dz.kind = "legacy" THEN dz.legacy
        ELSE Get(dz.modules_available) /\ dz.error # "message"

\* health_data.get('diarization', {}): an absent value is the empty object
CheckDiarizationCapability(h) ==
    LET dz == h.diarization
    IN  IF dz.kind = "legacy" THEN dz.legacy
        ELSE /\ Get(dz.modules_available)
             /\ Get(dz.token_present)
             /\ dz.error # "message"

\* _check_api_health: the value diarization_available has after __init__
CheckApiHealth(h) ==
    IF h.success /\ Get(h.ok) THEN CheckDiarizationCapability(h) ELSE FALSE

\* build_request: the names of the parts of the body, in order
BuildRequest(enable_diarization, diarization_available) ==
    <<"file">>
    \o (IF enable_diarization /\ diarization_available
        THEN <<"diarize">> ELSE <<>>)
    \o <<"format", "language">>

\* WhisperTranscriber.__init__ with the probe answering h
NewWhisperTranscriber(h) ==
    [health |-> h, diarization_available |-> CheckApiHealth(h),
     api_status |-> HealthDataTruthy(h), available |-> "unasked",
     via |-> "init", requested |-> FALSE, parts |-> <<>>]

\* WhisperTranscriptionService.is_available: returns _transcriber.api_status,
\* the health data itself; available records its truth value
CallIsAvailable ==
    /\ wt.via # "none"
    /\ wt' = [wt EXCEPT !.available = IF wt.api_status THEN "true" ELSE "false"]
    /\ UNCHANGED nonWhisperVars

\* request_builder.build_request called with a TranscriptionRequest whose
\* enable_diarization the caller chose
CallBuildRequest ==
    /\ wt.via # "none"
    /\ \E enable \in BOOLEAN :
         wt' = [wt EXCEPT !.via = "build_request", !.requested = enable,
                  !.parts = BuildRequest(enable, wt.diarization_available)]
    /\ UNCHANGED nonWhisperVars

\* transcribe_file up to the request it sends: enable_diarization is the
\* transcriber's own diarization_available
WhisperTranscribeFile ==
    /\ wt.via # "none"
    /\ wt' = [wt EXCEPT !.via = "transcribe_file",
                !.requested = wt.diarization_available,
                !.parts = BuildRequest(wt.diarization_available,
                                       wt.diarization_available)]
    /\ UNCHANGED nonWhisperVars

----------------------------------------------------------------------------
(* gui/managers/transcription_manager.py: TranscriptionManager              *)

\* the values a backend hands to the progress callback during one
\* transcribe_file call, in order; -1 marks an error event
BackendEvents(svc, o) ==
    IF svc = "whisper"
    THEN IF o = "speech" THEN <<10, 50, 100>> ELSE <<10, 50, -1>>
    ELSE IF o = "speech" THEN <<0, 50, 100>>
    ELSE IF o = "silent" THEN <<0, 50, 100, -1>>
    ELSE <<0, 50, -1>>

\* one call of progress_tracker.update_progress. value is the percentage
\* handed over, times the number of files so that it stays an integer;
\* done and within say where the run stood: files finished, and the
\* backend's own value for the file in hand
ProgressEvent(value, done, within) ==
    [value |-> value, done |-> done, within |-> within]

\* (i / total_files) * 100, times total_files
FileShare(i) == 100 * i

\* the callback handed to transcribe_file passes prog on as it is
CallbackEvents(svc, o, i, n) ==
    LET ps == BackendEvents(svc, o)
    IN  [k \in 1..Len(ps) |->
            IF ps[k] = -1 THEN ProgressEvent(-1, i, -1)
            ELSE ProgressEvent(ps[k] * n, i, ps[k])]

\* a faulty guard: start_transcription never finds a run in progress
AlreadyProcessing_Never(t) == FALSE

\* "if self.app.processing:", the guard of start_transcription
AlreadyProcessing(t) == t.processing

\* start_transcription: nothing happens while processing is set or when the
\* backend is missing; else the flag is set and the worker thread started
TmStart ==
    /\ IF AlreadyProcessing(tm)
       THEN tm' = [tm EXCEPT !.refused = TRUE]
       ELSE \E svc \in Services, available \in BOOLEAN, n \in 1..MaxFiles :
              IF ~available
              THEN tm' = [tm EXCEPT !.status = "Backend Error"]
              ELSE tm' = [tm EXCEPT !.processing = TRUE, !.workers = @ + 1,
                            !.pc = "loop", !.i = 0, !.n = n, !.svc = svc,
                            !.events = <<>>, !.refused = FALSE,
                            !.status = "Starting"]
    /\ UNCHANGED nonManagerVars

\* loop head up to the transcribe_file call
TmPrepare ==
    /\ tm.pc = "loop"
    /\ tm.i < tm.n
    /\ IF ~tm.processing
       THEN tm' = [tm EXCEPT !.status = "Cancelled", !.pc = "finally"]
       ELSE \E prepared \in BOOLEAN :
              tm' = [tm EXCEPT !.pc = "backend", !.prepared = prepared,
                        !.events = Append(@, ProgressEvent(FileShare(tm.i),
                                                           tm.i, 0))]
    /\ UNCHANGED nonManagerVars

\* transcribe_file and the rest of the iteration: a None from prepare_audio
\* makes the service raise before any callback; every outcome ends with one
\* more event at the file's starting percentage
TmTranscribed ==
    /\ tm.pc = "backend"
    /\ \E o \in Outcomes(tm.svc) :
         LET called == IF tm.prepared
                       THEN CallbackEvents(tm.svc, o, tm.i, tm.n)
                       ELSE <<>>
         IN  tm' = [tm EXCEPT !.pc = "loop", !.i = @ + 1,
                      !.events = @ \o called \o
                          <<ProgressEvent(FileShare(tm.i), tm.i + 1, 0)>>]
    /\ UNCHANGED nonManagerVars

\* after the loop: "Completed" unless the flag was cleared
TmFinish ==
    /\ tm.pc = "loop"
    /\ tm.i >= tm.n
    /\ tm' = [tm EXCEPT !.pc = "finally",
                !.status = IF tm.processing THEN "Completed" ELSE @]
    /\ UNCHANGED nonManagerVars

\* an exception that reaches the outer handler
TmFail ==
    /\ tm.pc \in {"loop", "backend"}
    /\ tm' = [tm EXCEPT !.pc = "finally", !.status = "Failed"]
    /\ UNCHANGED nonManagerVars

\* the finally: the flag is cleared and the thread ends
TmFinally ==
    /\ tm.pc = "finally"
    /\ tm' = [tm EXCEPT !.pc = "idle", !.processing = FALSE, !.workers = @ - 1]
    /\ UNCHANGED nonManagerVars

----------------------------------------------------------------------------
(* Python str values: a str is the sequence of its code points *)

\* None, where a str is expected; no code point is negative
PyNone == <<-1>>

Truthy(s) == s # PyNone /\ s # <<>>

\* the literals the parser uses
STR_SPEAKER_ == <<83, 80, 69, 65, 75, 69, 82, 95>>

STR_Unknown == <<85, 110, 107, 110, 111, 119, 110>>

STR_Speaker == <<83, 112, 101, 97, 107, 101, 114>>

STR_Space == <<32>>

STR_ColonSpace == <<58, 32>>

STR_Newline == <<10>>

IsSpace(c) == c \in {9, 10, 11, 12, 13, 32}

IsDigit(c) == c \in 48..57

\* s.startswith(p)
StartsWith(s, p) == Len(s) >= Len(p) /\ SubSeq(s, 1, Len(p)) = p

\* s.strip()
RECURSIVE LStrip(_)
LStrip(s) ==
    IF s # <<>> /\ IsSpace(Head(s)) THEN LStrip(Tail(s)) ELSE s

RECURSIVE RStrip(_)
RStrip(s) ==
    IF s # <<>> /\ IsSpace(s[Len(s)])
    THEN RStrip(SubSeq(s, 1, Len(s) - 1))
    ELSE s

Strip(s) == RStrip(LStrip(s))

\* s.split(sep) for a one-character sep: the list of the parts
RECURSIVE SplitFrom(_, _, _)
SplitFrom(s, sep, part) ==
    IF s = <<>> THEN <<part>>
    ELSE IF Head(s) = sep
    THEN <<part>> \o SplitFrom(Tail(s), sep, <<>>)
    ELSE SplitFrom(Tail(s), sep, Append(part, Head(s)))

Split(s, sep) == SplitFrom(s, sep, <<>>)

\* sep.join(parts)
RECURSIVE Join(_, _)
Join(parts, sep) ==
    IF parts = <<>> THEN <<>>
    ELSE IF Len(parts) = 1 THEN parts[1]
    ELSE parts[1] \o sep \o Join(Tail(parts), sep)

RECURSIVE DigitsValue(_, _)
DigitsValue(ds, acc) ==
    IF ds = <<>> THEN acc
    ELSE DigitsValue(Tail(ds), acc * 10 + (Head(ds) - 48))

\* int(s): surrounding whitespace and one sign are accepted; ValueError
\* unless digits follow
ParseInt(s) ==
    LET t == Strip(s)
        signed == t # <<>> /\ Head(t) \in {43, 45}
        ds == IF signed THEN Tail(t) ELSE t
        ok == ds # <<>> /\ \A k \in 1..Len(ds) : IsDigit(ds[k])
        v == IF ok THEN DigitsValue(ds, 0) ELSE 0
    IN  [ok |-> ok,
         val |-> IF signed /\ Head(t) = 45 THEN 0 - v ELSE v]

\* str(n)
RECURSIVE NatToStr(_)
NatToStr(n) ==
    IF n < 10 THEN <<48 + n>>
    ELSE Append(NatToStr(n \div 10), 48 + (n % 10))

IntToStr(n) == IF n < 0 THEN <<45>> \o NatToStr(0 - n) ELSE NatToStr(n)

\* chr(k): ValueError outside range(0x110000)
ChrOk(k) == k >= 0 /\ k < 1114112

----------------------------------------------------------------------------
(* core/whisper/response_parser.py: WhisperResponseParser *)

MapSpeakerLabel(speaker_id) ==
    IF ~Truthy(speaker_id) \/ speaker_id = STR_Unknown
    THEN STR_Speaker
    ELSE IF StartsWith(speaker_id, STR_SPEAKER_)
    THEN LET parts == Split(speaker_id, 95)
             n == ParseInt(parts[2])
         IN  IF ~n.ok THEN speaker_id
             ELSE IF n.val < 26
             THEN IF ChrOk(65 + n.val)
                  THEN STR_Speaker \o STR_Space \o <<65 + n.val>>
                  ELSE speaker_id
             ELSE STR_Speaker \o STR_Space \o IntToStr(n.val + 1)
    ELSE speaker_id

\* a WhisperSegment: text is required, speaker is optional
Segment(speaker, text) == [speaker |-> speaker, text |-> text]

\* f"{current_speaker}: {combined_text}"
SpeakerLine(speaker, texts) ==
    speaker \o STR_ColonSpace \o Join(texts, STR_Space)

\* a faulty flush: only the first text of the run reaches the line
Flush_FirstTextOnly(st) ==
    IF Truthy(st.current_speaker) /\ st.current_texts # <<>>
    THEN Append(st.lines,
                SpeakerLine(st.current_speaker, <<Head(st.current_texts)>>))
    ELSE st.lines

\* the flush of the current speaker's texts
Flush(st) ==
    IF Truthy(st.current_speaker) /\ st.current_texts # <<>>
    THEN Append(st.lines, SpeakerLine(st.current_speaker, st.current_texts))
    ELSE st.lines

\* an iteration that starts a new line for every segment
AggregateStep_NoMerge(st, segment) ==
    LET speaker == IF Truthy(segment.speaker) THEN segment.speaker
                   ELSE STR_Unknown
        text == Strip(segment.text)
    IN  IF text = <<>> THEN st
        ELSE [lines |-> Flush(st), current_speaker |-> MapSpeakerLabel(speaker),
              current_texts |-> <<text>>]

\* one iteration of the loop over the segments
AggregateStep(st, segment) ==
    LET speaker == IF Truthy(segment.speaker) THEN segment.speaker
                   ELSE STR_Unknown
        text == Strip(segment.text)
        speaker_label == MapSpeakerLabel(speaker)
    IN  IF text = <<>> THEN st
        ELSE IF speaker_label # st.current_speaker
        THEN [lines |-> Flush(st), current_speaker |-> speaker_label,
              current_texts |-> <<text>>]
        ELSE [st EXCEPT !.current_texts = Append(@, text)]

RECURSIVE AggregateLoop(_, _)
AggregateLoop(st, segments) ==
    IF segments = <<>> THEN st
    ELSE AggregateLoop(AggregateStep(st, Head(segments)), Tail(segments))

AggregateSpeakerSegments(segments) ==
    IF segments = <<>> THEN <<>>
    ELSE LET st == AggregateLoop([lines |-> <<>>, current_speaker |-> PyNone,
                                  current_texts |-> <<>>], segments)
         IN  Join(Flush(st), STR_Newline)

\* a WhisperResponse; a missing segments list and an empty one are both <<>>,
\* the parser only tests the list's truth value
Response(text, segments, error) ==
    [text |-> text, segments |-> segments, error |-> error]

\* [seg.text.strip() for seg in segments if seg.text]
RECURSIVE StrippedTexts(_)
StrippedTexts(segments) ==
    IF segments = <<>> THEN <<>>
    ELSE IF Head(segments).text # <<>>
    THEN <<Strip(Head(segments).text)>> \o StrippedTexts(Tail(segments))
    ELSE StrippedTexts(Tail(segments))

\* a process_response that labels whenever there are segments
ProcessResponse_AlwaysLabelled(response) ==
    IF Truthy(response.error) THEN <<>>
    ELSE IF response.segments # <<>>
    THEN AggregateSpeakerSegments(response.segments)
    ELSE IF Truthy(response.text) THEN response.text
    ELSE <<>>

ProcessResponse(response) ==
    IF Truthy(response.error) THEN <<>>
    ELSE IF response.segments # <<>>
    THEN IF \E k \in 1..Len(response.segments) :
                /\ Truthy(response.segments[k].speaker)
                /\ response.segments[k].speaker # STR_Unknown
         THEN AggregateSpeakerSegments(response.segments)
         ELSE Join(StrippedTexts(response.segments), STR_Space)
    ELSE IF Truthy(response.text) THEN response.text
    ELSE <<>>

HasSpeechContent(response) ==
    IF Truthy(response.error) THEN FALSE
    ELSE IF response.segments # <<>>
    THEN \E k \in 1..Len(response.segments) :
            Strip(response.segments[k].text) # <<>>
    ELSE Truthy(response.text) /\ Strip(response.text) # <<>>

\* what transcribe_file makes of a response: the transcript, whether speech
\* was found, and the value it returns
ParseOutcome(response) ==
    LET full_transcript == ProcessResponse(response)
        speech == HasSpeechContent(response)
    IN  [transcript |-> full_transcript, speech |-> speech,
         returned |-> IF speech THEN full_transcript ELSE <<>>]

\* all sequences over S of length at most n
SeqsUpTo(S, n) == UNION {[1..k -> S] : k \in 0..n}

STR_a == <<97>>

STR_b_padded == <<32, 98, 32>>

STR_Alice == <<65, 108, 105, 99, 101>>

STR_boom == <<98, 111, 111, 109>>

\* the characters that follow "SPEAKER_": 0 2 5 6 - _ x and a space
SuffixChars == {48, 50, 53, 54, 45, 95, 120, 32}

SpeakerIdInputs ==
    {PyNone, <<>>, STR_Unknown, STR_Alice}
        \cup {STR_SPEAKER_ \o x : x \in SeqsUpTo(SuffixChars, MaxSuffix)}

SegmentInputs ==
    {Segment(STR_SPEAKER_ \o <<48, 48>>, STR_a),
     Segment(STR_SPEAKER_ \o <<48, 48>>, STR_b_padded),
     Segment(STR_SPEAKER_ \o <<48>>, STR_a),
     Segment(STR_SPEAKER_ \o <<48, 49>>, STR_a),
     Segment(STR_SPEAKER_ \o <<48, 49>>, STR_Space),
     Segment(PyNone, STR_Space),
     Segment(PyNone, STR_b_padded),
     Segment(STR_Unknown, <<>>)}

ResponseInputs ==
    {Response(t, segs, e) :
        t \in {PyNone, <<>>, STR_Space, STR_a},
        segs \in SeqsUpTo(SegmentInputs, MaxRespSegs),
        e \in {PyNone, <<>>, STR_boom}}

Returned(fn, out) == px' = [px EXCEPT !.done = TRUE, !.out = out]

CallMapSpeakerLabel ==
    /\ px.fn = "map_speaker_label"
    /\ ~px.done
    /\ Returned(px.fn, MapSpeakerLabel(px.arg))
    /\ UNCHANGED nonParserVars

CallAggregateSpeakerSegments ==
    /\ px.fn = "aggregate_speaker_segments"
    /\ ~px.done
    /\ Returned(px.fn, AggregateSpeakerSegments(px.arg))
    /\ UNCHANGED nonParserVars

CallProcessResponse ==
    /\ px.fn = "process_response"
    /\ ~px.done
    /\ Returned(px.fn, ParseOutcome(px.arg))
    /\ UNCHANGED nonParserVars

----------------------------------------------------------------------------

InitJob ==
    /\ job = NewJob
    /\ now = 0
    /\ last = [op |-> "init", arg |-> 0, raised |-> FALSE, prev |-> NewJob]
    /\ tjpc = "idle"
    /\ \E svc \in Services, key \in BOOLEAN, probe \in Probes :
         tj = [svc |-> svc, apiKey |-> key, probe |-> probe,
               entered |-> FALSE, backendCalled |-> FALSE, outcome |-> "none",
               text |-> ""]

NextJob ==
    \/ CallMarkProcessing
    \/ CallMarkCompleted
    \/ CallMarkFailed
    \/ CallMarkCancelled
    \/ CallUpdateProgress
    \/ TJ_Start
    \/ TJ_Preparing
    \/ TJ_Transcribing
    \/ TJ_Response
    \/ TJ_Finish

InitWeb ==
    /\ disk = {}
    /\ webTemp = {}
    /\ \E key \in BOOLEAN, fmt \in FormatProvided :
         webCfg = [api_key |-> key, client |-> key, has_format |-> fmt]
    /\ wjob = [j \in WebJobs |-> NoWebJob]
    /\ wk = [j \in WebJobs |-> [pc |-> "idle", i |-> 0, prepared |-> NonePath,
                             cause |-> "none"]]

\* the web server is not running
WebOff ==
    /\ webTemp = {}
    /\ webCfg = [api_key |-> FALSE, client |-> FALSE, has_format |-> FALSE]
    /\ wjob = [j \in WebJobs |-> NoWebJob]
    /\ wk = [j \in WebJobs |-> [pc |-> "idle", i |-> 0, prepared |-> NonePath,
                                 cause |-> "none"]]

\* no web request arrives, no temp file exists
WebIdle == disk = {} /\ WebOff

\* the desktop application is not running
GuiIdle ==
    /\ gui = [processing |-> FALSE, api_key |-> FALSE, client |-> FALSE,
              export_timestamps |-> FALSE, status |-> "Ready", log |-> <<>>]
    /\ guiTemp = {}
    /\ gw = [pc |-> "idle", i |-> 0, n |-> 0, prepared |-> NonePath,
             cause |-> "none", cancelAt |-> 0, logAt |-> <<>>]

InitGui ==
    /\ \E key, ts \in BOOLEAN :
         gui = [processing |-> FALSE, api_key |-> key, client |-> key,
                export_timestamps |-> ts, status |-> "Ready", log |-> <<>>]
    /\ guiTemp = {}
    /\ disk = {}
    /\ gw = [pc |-> "idle", i |-> 0, n |-> 0, prepared |-> NonePath,
             cause |-> "none", cancelAt |-> 0, logAt |-> <<>>]

\* no stand-alone AudioHandler
HandlerIdle ==
    ah = [temp_files |-> {},
          last |-> [op |-> "init", arg |-> NonePath, input |-> "",
                    ret |-> NonePath, raised |-> FALSE, temp_files |-> {},
                    disk |-> {}]]

\* AudioHandler.__init__: an empty registry
InitHandler == HandlerIdle /\ disk = {}

\* no WhisperTranscriber
WhisperIdle ==
    wt = [health |-> [success |-> FALSE, ok |-> "absent",
                      diarization |-> NoDiarization, more |-> FALSE],
          diarization_available |-> FALSE, api_status |-> FALSE,
          available |-> "unasked", via |-> "none",
          requested |-> FALSE, parts |-> <<>>]

\* a WhisperTranscriber just constructed, whatever the probe answered
InitWhisper == \E h \in HealthProbes : wt = NewWhisperTranscriber(h)

\* a TranscriptionManager whose application has just been built
ManagerIdle ==
    tm = [processing |-> FALSE, workers |-> 0, pc |-> "idle", i |-> 0,
          n |-> 0, svc |-> "whisper", prepared |-> FALSE, events |-> <<>>,
          refused |-> FALSE, status |-> "Ready"]

\* a shared AudioHandler just built, both threads idle
ThreadsIdle ==
    hc = [reg |-> {}, files |-> {}, thr |-> [t \in Threads |-> ThreadIdle],
          snap |-> {}, readded |-> {}, left |-> {}, overlap |-> FALSE,
          swallowed |-> FALSE]

\* no parser call
ParserIdle == px = [fn |-> "none", arg |-> <<>>, out |-> <<>>, done |-> FALSE]

InitParser ==
    \/ \E id \in SpeakerIdInputs :
         px = [fn |-> "map_speaker_label", arg |-> id, out |-> <<>>,
               done |-> FALSE]
    \/ \E segs \in SeqsUpTo(SegmentInputs, MaxSegs) :
         px = [fn |-> "aggregate_speaker_segments", arg |-> segs,
               out |-> <<>>, done |-> FALSE]
    \/ \E r \in ResponseInputs :
         px = [fn |-> "process_response", arg |-> r, out |-> <<>>,
               done |-> FALSE]

\* no call on the validated job object
JobIdle ==
    /\ job = NewJob
    /\ now = 0
    /\ last = [op |-> "init", arg |-> 0, raised |-> FALSE, prev |-> NewJob]
    /\ tjpc = "idle"
    /\ tj = [svc |-> "whisper", apiKey |-> FALSE, probe |-> "down",
             entered |-> FALSE, backendCalled |-> FALSE, outcome |-> "none",
             text |-> ""]

\* only the job object is in use
InitJobOnly == InitJob /\ WebIdle /\ GuiIdle /\ ParserIdle /\ HandlerIdle /\ WhisperIdle
    /\ ManagerIdle /\ ThreadsIdle

SpecJob == InitJobOnly /\ [][NextJob]_vars

\* a job that only the service's transcribe_job touches
NextService ==
    \/ TJ_Start
    \/ TJ_Preparing
    \/ TJ_Transcribing
    \/ TJ_Response
    \/ TJ_Finish

SpecService == InitJobOnly /\ [][NextService]_vars

NextWeb ==
    \/ WebSetApiKey
    \/ \E j \in WebJobs :
         \/ WebUpload(j)
         \/ WebStart(j)
         \/ WebPrepare(j)
         \/ WebTranscribed(j)
         \/ WebCompleted(j)
         \/ WebFinish(j)

\* only the web application is in use
InitWebOnly == InitWeb /\ JobIdle /\ GuiIdle /\ ParserIdle /\ HandlerIdle /\ WhisperIdle
    /\ ManagerIdle /\ ThreadsIdle

SpecWeb == InitWebOnly /\ [][NextWeb]_vars

\* the uploads and their workers together with the endpoint that receives
\* processed transcripts
NextWebApi ==
    \/ NextWeb
    \/ \E j \in WebJobs : WebReceiveProcessed(j)

SpecWebApi == InitWebOnly /\ [][NextWebApi]_vars

\* every prepare_audio and backend call returns or raises, and a started
\* thread keeps being scheduled: each step of a worker is weakly fair
SpecWebFair ==
    /\ SpecWeb
    /\ \A j \in WebJobs :
         /\ WF_vars(WebStart(j))
         /\ WF_vars(WebPrepare(j))
         /\ WF_vars(WebTranscribed(j))
         /\ WF_vars(WebCompleted(j))
         /\ WF_vars(WebFinish(j))

NextGui ==
    \/ GuiSaveApiKey
    \/ GuiToggleExport
    \/ GuiStart
    \/ GuiPrepare
    \/ GuiTranscribed
    \/ GuiFinish
    \/ GuiCancel

\* only the desktop application is in use
InitGuiOnly == InitGui /\ JobIdle /\ WebOff /\ ParserIdle /\ HandlerIdle /\ WhisperIdle
    /\ ManagerIdle /\ ThreadsIdle

SpecGui == InitGuiOnly /\ [][NextGui]_vars

NextParser ==
    \/ CallMapSpeakerLabel
    \/ CallAggregateSpeakerSegments
    \/ CallProcessResponse

\* only the response parser is in use
InitParserOnly == InitParser /\ JobIdle /\ WebIdle /\ GuiIdle /\ HandlerIdle /\ WhisperIdle
    /\ ManagerIdle /\ ThreadsIdle

SpecParser == InitParserOnly /\ [][NextParser]_vars

NextHandler ==
    \/ CallPrepareAudio
    \/ CallCleanupTempFile
    \/ CallCleanupAllTempFiles

\* only an AudioHandler is in use
InitHandlerOnly == InitHandler /\ JobIdle /\ WebOff /\ GuiIdle /\ ParserIdle /\ WhisperIdle
    /\ ManagerIdle /\ ThreadsIdle

SpecHandler == InitHandlerOnly /\ [][NextHandler]_vars

NextWhisper ==
    \/ CallBuildRequest
    \/ WhisperTranscribeFile
    \/ CallIsAvailable

\* only a WhisperTranscriber is in use
InitWhisperOnly ==
    InitWhisper /\ JobIdle /\ WebIdle /\ GuiIdle /\ ParserIdle /\ HandlerIdle
    /\ ManagerIdle /\ ThreadsIdle

SpecWhisper == InitWhisperOnly /\ [][NextWhisper]_vars

NextManager ==
    \/ TmStart
    \/ TmPrepare
    \/ TmTranscribed
    \/ TmFinish
    \/ TmFail
    \/ TmFinally

\* only a TranscriptionManager is in use
InitManagerOnly ==
    ManagerIdle /\ JobIdle /\ WebIdle /\ GuiIdle /\ ParserIdle /\ HandlerIdle
    /\ WhisperIdle /\ ThreadsIdle

SpecManager == InitManagerOnly /\ [][NextManager]_vars

\* the worker thread keeps being scheduled and its calls return or raise;
\* an exception (TmFail) may or may not happen
SpecManagerFair ==
    /\ SpecManager
    /\ WF_vars(TmPrepare)
    /\ WF_vars(TmTranscribed)
    /\ WF_vars(TmFinish)
    /\ WF_vars(TmFinally)

NextThreads ==
    \E t \in Threads :
        \/ ThCleanupAll(t)
        \/ ThAllNext(t)
        \/ ThCleanup(t)
        \/ ThCleanupIn(t)
        \/ ThCleanupExists(t)
        \/ ThCleanupRemove(t)
        \/ ThCleanupUnregister(t)
        \/ ThPrepareExport(t)
        \/ ThPrepareRegister(t)
        \/ ThReturn(t)

\* only the two threads of a shared AudioHandler are running
InitThreadsOnly ==
    ThreadsIdle /\ JobIdle /\ WebIdle /\ GuiIdle /\ ParserIdle /\ HandlerIdle
    /\ WhisperIdle /\ ManagerIdle

SpecThreads == InitThreadsOnly /\ [][NextThreads]_vars

----------------------------------------------------------------------------
(* Properties of the TranscriptionJob state machine and of transcribe_job *)

\* C1: once the status is completed, failed or cancelled, no call (direct or
\* made by transcribe_job's exception handler) changes it to another status.
C1_TerminalIsFinal ==
    [][job.status \in Terminal => job'.status = job.status]_jobVars

\* C2: mark_processing is accepted exactly from pending, where it sets the
\* status to processing, the start time to now and progress to 0; from any
\* other status it raises and leaves every field of the job as it was.
C2_MarkProcessingOnlyFromPending ==
    last.op = "mark_processing" =>
        IF last.prev.status = "pending"
        THEN /\ ~last.raised
             /\ job.status = "processing"
             /\ job.started_at = now
             /\ job.started_at # NoTime
             /\ job.progress = 0
             /\ job.completed_at = last.prev.completed_at
             /\ job.result = last.prev.result
             /\ job.error_message = last.prev.error_message
        ELSE /\ last.raised
             /\ job = last.prev

\* C2 witness: the second mark_processing in a row was rejected.
C2_Witness ==
    /\ last.op = "mark_processing"
    /\ last.raised
    /\ last.prev.status = "processing"
    /\ last.prev.started_at # NoTime
    /\ job = last.prev

\* C3: update_progress is accepted exactly while the status is processing; in
\* every other status it raises and the stored progress (and every other
\* field) is left as it was, neither clamped nor overwritten.
C3_UpdateProgressOnlyWhileProcessing ==
    last.op = "update_progress" =>
        IF last.prev.status = "processing"
        THEN /\ ~last.raised
             /\ job.status = "processing"
             /\ job.progress \in 0..100
        ELSE /\ last.raised
             /\ job.progress = last.prev.progress
             /\ job = last.prev

\* C3 witness: an out-of-range update on a completed job was rejected and
\* the progress stayed at 100.
C3_Witness ==
    /\ last.op = "update_progress"
    /\ last.raised
    /\ last.arg = -1
    /\ last.prev.status = "completed"
    /\ job.progress = 100

\* C4: while the status stays processing, no update that transcribe_job's
\* wrapped callback applies lowers the progress field.
C4_ProgressMonotoneWhileProcessing ==
    [][(/\ last'.op = "transcribe_job"
        /\ job.status = "processing"
        /\ job'.status = "processing") => job'.progress >= job.progress]_jobVars

\* C5: a per-file failure never prevents the later files from being
\* processed: the worker has appended one entry for each file it is past, in
\* submission order, and when it finishes the job holds one entry per file
\* and its status is completed
C5_FailureNeverStopsLaterFiles ==
    \A j \in WebJobs :
        /\ wjob[j].status # "failed"
        /\ \A k \in 1..Len(wjob[j].results) : wjob[j].results[k].file = k
        /\ wk[j].pc \in {"loop", "backend"} =>
              Len(wjob[j].results) = wk[j].i - 1
        /\ wk[j].pc = "done" =>
              /\ wjob[j].status = "completed"
              /\ Len(wjob[j].results) = wjob[j].n

\* a finished two-file job whose first file failed preparation and whose
\* second file went on to the backend
C5_Witness ==
    \E j \in WebJobs :
        /\ wk[j].pc = "done"
        /\ wjob[j].n = 2
        /\ wjob[j].results[1].cls = "AudioHandlerError"
        /\ wjob[j].results[2].cls = "TranscriptionError"
        /\ wk[j].cause \in {"error_status", "sdk_exception"}

\* C6: when the worker is about to start the next file (or has finished the
\* last one), no temp file that prepare_audio made for an earlier file of the
\* run is left on disk or in the temp_files registry
C6_TempReleasedBeforeNextFile ==
    gw.pc = "loop" =>
        \A k \in 1..(gw.i - 1) :
            TempOf(FilePath("gui", k)) \notin (disk \cup guiTemp)

\* C7: while a job's backend call on a temp file is in flight, no cleanup
\* done for another job has removed that temp file
C7_NoCrossJobCleanup ==
    \A j \in WebJobs :
        (wk[j].pc = "backend" /\ wk[j].prepared.kind = "temp") =>
            (wk[j].prepared \in disk /\ wk[j].prepared \in webTemp)

\* C10: a file whose backend call failed and a file that held no speech are
\* recorded with different error classes
C10_FailureClassesDistinct ==
    \A j1, j2 \in WebJobs :
        (wk[j1].cause \in BackendFailures /\ wk[j2].cause = "silent") =>
            wjob[j1].results[Len(wjob[j1].results)].cls #
                wjob[j2].results[Len(wjob[j2].results)].cls

\* C8: with no backend available (missing credential, failed health probe) a
\* job handed to transcribe_job never enters processing and no transcribe
\* request is sent for it.
C8_UnavailableNeverProcessing ==
    ~IsAvailable(tj) => (~tj.entered /\ ~tj.backendCalled)

\* C9: when the backend call failed (HTTP non-2xx, connection failure, SDK
\* exception, provider error status), transcribe_job does not return with
\* the job completed.
C9_BackendFailureSurfaced ==
    tj.outcome \in BackendFailures =>
        ~(tjpc = "returned" /\ job.status = "completed")

\* C11: a response whose error field is set does not come out of the parser
\* (transcript, speech flag, returned value) as the response with empty text,
\* no segments and no error does
C11_ErrorDistinctFromNoSpeech ==
    (px.fn = "process_response" /\ px.done /\ Truthy(px.arg.error)) =>
        px.out # ParseOutcome(Response(<<>>, <<>>, PyNone))

\* C12: after an ordinary API failure transcribe_file has returned, not
\* raised, and what it returned is not what it returns for a successful call
\* that found nothing
C12_FailureReturnedWithError ==
    (tj.outcome \in BackendFailures /\ tjpc \in {"file_returned", "file_raised"}) =>
        /\ tjpc = "file_returned"
        /\ tj.text # HandleResponse(tj, job, IF tj.svc = "whisper"
                                              THEN "silent" ELSE "empty").text

\* C13: a cloud backend built without an API key reports that it is not
\* available, and a transcribe call on it makes no SDK call and does not
\* raise for the missing key
C13_KeylessBackendReturnsError ==
    (tj.svc = "assemblyai" /\ ~tj.apiKey) =>
        /\ ~IsAvailable(tj)
        /\ ~tj.backendCalled
        /\ ~(tjpc = "file_raised" /\ tj.outcome = "no_key")

C15_EmptyFileRaises ==
    (ah.last.op = "prepare_audio" /\ ah.last.input = "empty_file") =>
        /\ ah.last.raised
        /\ disk = ah.last.disk
        /\ ah.temp_files = ah.last.temp_files

\* C16: every prepare_audio call that returns a path, a .wav input included,
\* returns the temp path derived from the source name, written to disk and
\* registered in temp_files
C16_SuccessReturnsRegisteredTemp ==
    (ah.last.op = "prepare_audio" /\ ah.last.ret # NonePath) =>
        /\ ah.last.ret = TempOf(ah.last.arg)
        /\ ah.last.ret \in disk
        /\ ah.last.ret \in ah.temp_files

ProbeReportsDiarization(h) ==
    /\ h.diarization.kind = "dict"
    /\ h.diarization.modules_available = "true"
    /\ h.diarization.token_present = "true"
    /\ h.diarization.error \in {"absent", "empty"}

HasDiarizePart ==
    \E k \in 1..Len(wt.parts) : wt.parts[k] = "diarize"

RequestBuilt == wt.via \in {"build_request", "transcribe_file"}

LabelOf(segment) ==
    MapSpeakerLabel(IF Truthy(segment.speaker) THEN segment.speaker
                    ELSE STR_Unknown)

HasText(segment) == Strip(segment.text) # <<>>

\* the positions where a maximal run of equal labels begins
RunStarts(kept) ==
    {k \in 1..Len(kept) : k = 1 \/ LabelOf(kept[k]) # LabelOf(kept[k - 1])}

\* one line per maximal run, in order: the label, ': ', and the run's trimmed
\* texts joined by single spaces
RunLines(kept) ==
    LET starts == RunStarts(kept)
        start(j) == CHOOSE k \in starts :
                        Cardinality({x \in starts : x <= k}) = j
        end(j) == IF j = Cardinality(starts) THEN Len(kept)
                  ELSE start(j + 1) - 1
    IN  [j \in 1..Cardinality(starts) |->
            LabelOf(kept[start(j)]) \o STR_ColonSpace \o
            Join([k \in 1..(end(j) - start(j) + 1) |->
                     Strip(kept[start(j) + k - 1].text)], STR_Space)]

\* C19: over the segments whose trimmed text is not empty, the result of
\* aggregate_speaker_segments is one line per maximal run of consecutive
\* segments with the same mapped label, in the original order, the lines
\* joined by newlines
C19_OneLinePerConsecutiveRun ==
    (px.fn = "aggregate_speaker_segments" /\ px.done) =>
        px.out = Join(RunLines(SelectSeq(px.arg, HasText)), STR_Newline)

\* labels A, A, B, B, A, every segment with text: three lines
C19_Witness ==
    /\ px.fn = "aggregate_speaker_segments"
    /\ px.done
    /\ Len(px.arg) = 5
    /\ \A k \in 1..5 : HasText(px.arg[k])
    /\ LabelOf(px.arg[1]) = LabelOf(px.arg[2])
    /\ LabelOf(px.arg[2]) # LabelOf(px.arg[3])
    /\ LabelOf(px.arg[3]) = LabelOf(px.arg[4])
    /\ LabelOf(px.arg[5]) = LabelOf(px.arg[1])
    /\ Len(Split(px.out, 10)) = 3

\* the digits after SPEAKER_ when the id is SPEAKER_<n>, n in decimal
SpeakerNumber(id) == SubSeq(id, Len(STR_SPEAKER_) + 1, Len(id))

IsSpeakerN(id) ==
    /\ StartsWith(id, STR_SPEAKER_)
    /\ SpeakerNumber(id) # <<>>
    /\ \A k \in 1..Len(SpeakerNumber(id)) : IsDigit(SpeakerNumber(id)[k])

\* C20: map_speaker_label gives 'Speaker' for an empty or 'Unknown' id, for
\* SPEAKER_<n> 'Speaker ' and the n-th letter when n < 26 and 'Speaker <n+1>'
\* when n >= 26, and every other id as it was given
C20_OtherIdsUnchanged ==
    (px.fn = "map_speaker_label" /\ px.done) =>
        LET id == px.arg
            n == DigitsValue(SpeakerNumber(id), 0)
        IN  px.out =
                IF ~Truthy(id) \/ id = STR_Unknown THEN STR_Speaker
                ELSE IF IsSpeakerN(id)
                THEN IF n < 26 THEN STR_Speaker \o STR_Space \o <<65 + n>>
                     ELSE STR_Speaker \o STR_Space \o NatToStr(n + 1)
                ELSE id

\* a speaker id that names a speaker: not None, not empty, not 'Unknown'
NamesSpeaker(segment) ==
    Truthy(segment.speaker) /\ segment.speaker # STR_Unknown

SomeSegment(segments, P(_)) == \E k \in 1..Len(segments) : P(segments[k])

\* a label is always followed by ': ', and no text of a segment has a colon
LabelsEmitted(transcript) ==
    \E k \in 1..Len(transcript) : transcript[k] = 58

HasRawText(segment) == segment.text # <<>>

TrimmedText(segment) == Strip(segment.text)

\* the trimmed texts of the segments picked by P, in order
TextsOf(segments, P(_)) ==
    LET kept == SelectSeq(segments, P)
    IN  [k \in 1..Len(kept) |-> TrimmedText(kept[k])]

ProcessedSegments ==
    px.fn = "process_response" /\ px.done /\ px.arg.segments # <<>>

ResultsOnlyAppended ==
    \A j \in WebJobs :
        /\ Len(wjob'[j].results) >= Len(wjob[j].results)
        /\ \A k \in 1..Len(wjob[j].results) :
               wjob'[j].results[k] = wjob[j].results[k]

C23_AvailableIffProbeOk ==
    wt.available # "unasked" =>
        (wt.available = "true"
            <=> (wt.health.success /\ wt.health.ok = "true"))

\* C24: leaving the -1 error events aside, the percentages handed to the
\* progress callback during a run never decrease, and each one is
\* (files done + the backend's value for the file in hand) / total files
C24_ProgressScaledAndMonotone ==
    /\ \A k \in 1..Len(tm.events) : \A m \in k..Len(tm.events) :
           (tm.events[k].value # -1 /\ tm.events[m].value # -1)
               => tm.events[k].value <= tm.events[m].value
    /\ \A k \in 1..Len(tm.events) :
           tm.events[k].value # -1
               => tm.events[k].value
                      = 100 * tm.events[k].done + tm.events[k].within

WithText(segments) == SelectSeq(segments, HasText)

\* C26: segments whose trimmed text is empty change nothing: the transcript
\* of a response is the transcript of the same response without them
C26_EmptySegmentsContributeNothing ==
    (ProcessedSegments /\ ~Truthy(px.arg.error)) =>
        px.out.transcript =
            IF WithText(px.arg.segments) = <<>> THEN <<>>
            ELSE ProcessResponse([px.arg EXCEPT
                                     !.segments = WithText(px.arg.segments)])

\* C27: after any sequence of accepted and rejected calls on a new job, a
\* result is stored only in status completed, an error message only in status
\* failed, and every terminal status has its completion time set.
C27_FieldsMatchStatus ==
    /\ job.result # NoneStr => job.status = "completed"
    /\ job.error_message # NoneStr => job.status = "failed"
    /\ job.status \in Terminal => job.completed_at # NoTime

\* C27 witness: mark_failed on a completed job that held a result cleared the
\* result and stored the error message.
C27_Witness ==
    /\ last.op = "mark_failed"
    /\ last.prev.status = "completed"
    /\ last.prev.result # NoneStr
    /\ job.status = "failed"
    /\ job.result = NoneStr
    /\ job.error_message # NoneStr
    /\ job.completed_at = now

WebEnded == {"completed", "failed"}

\* every submitted web job eventually has status completed or failed
WebJobsTerminate ==
    \A j \in WebJobs :
        (wjob[j].status # "absent") ~> (wjob[j].status \in WebEnded)

\* a web job that is completed or failed keeps its status
WebStatusFinal ==
    [][\A j \in WebJobs :
          wjob[j].status \in WebEnded => wjob'[j].status = wjob[j].status]_vars

\* a started worker finds its job in the registry
WebWorkerFindsJob ==
    \A j \in WebJobs :
        wk[j].pc \notin {"idle", "rejected"} => wjob[j].status # "absent"

\* C28: at every moment a request can read the job, end_time is set exactly
\* when the status is completed or failed, and progress is 100 exactly when
\* the status is completed
C28_EndTimeAndProgressMatchStatus ==
    \A j \in WebJobs :
        /\ wjob[j].end_time <=> wjob[j].status \in WebEnded
        /\ wjob[j].progress = 100 <=> wjob[j].status = "completed"

RECURSIVE AfterLabel(_, _)
AfterLabel(rest, line) ==
    IF Len(rest) < 2 THEN line
    ELSE IF SubSeq(rest, 1, 2) = STR_ColonSpace
    THEN SubSeq(rest, 3, Len(rest))
    ELSE AfterLabel(Tail(rest), line)

\* the words of s: the maximal runs of characters that are not whitespace
RECURSIVE WordsFrom(_, _)
WordsFrom(s, word) ==
    IF s = <<>> THEN (IF word = <<>> THEN <<>> ELSE <<word>>)
    ELSE IF IsSpace(Head(s))
    THEN (IF word = <<>> THEN <<>> ELSE <<word>>) \o WordsFrom(Tail(s), <<>>)
    ELSE WordsFrom(Tail(s), Append(word, Head(s)))

Words(s) == WordsFrom(s, <<>>)

RECURSIVE WordsOfAll(_)
WordsOfAll(strs) ==
    IF strs = <<>> THEN <<>>
    ELSE Words(Head(strs)) \o WordsOfAll(Tail(strs))

\* the words of a transcript, line by line, labels left out
OutputWords(transcript) ==
    LET lines == Split(transcript, 10)
    IN  WordsOfAll([k \in 1..Len(lines) |-> AfterLabel(lines[k], lines[k])])

\* the words of the segments' texts, segment by segment
SegmentWords(segments) ==
    WordsOfAll([k \in 1..Len(segments) |-> segments[k].text])

\* C30: no text is lost, repeated or reordered: the words of the output,
\* labels left out, are the words of the segments' texts in their order, on
\* the labelled path and on the unlabelled one
C30_NoTextLostOrReordered ==
    /\ (px.fn = "aggregate_speaker_segments" /\ px.done) =>
          OutputWords(px.out) = SegmentWords(px.arg)
    /\ (ProcessedSegments /\ ~Truthy(px.arg.error)) =>
          OutputWords(px.out.transcript) = SegmentWords(px.arg.segments)

\* C30 witness: a response that mixes a segment with a speaker id and one
\* without, both with text: two labelled lines carrying a and b in order
C30_Witness ==
    /\ ProcessedSegments
    /\ ~Truthy(px.arg.error)
    /\ Len(px.arg.segments) = 2
    /\ NamesSpeaker(px.arg.segments[1])
    /\ ~Truthy(px.arg.segments[2].speaker)
    /\ HasText(px.arg.segments[1])
    /\ HasText(px.arg.segments[2])
    /\ Len(Split(px.out.transcript, 10)) = 2
    /\ OutputWords(px.out.transcript) = <<STR_a, <<98>>>>

====
